---- MODULE Spec2Model ----
(***************************************************************************)
(* hudkeep: store / retrieve / list_stored between a local filesystem and  *)
(* a blob container (src/hudkeep/__init__.py).                             *)
(*                                                                         *)
(* The local filesystem and the container are the state.  Every call is    *)
(* one action; the record of the call and of what it returned or raised    *)
(* is kept in `last`.  A second specification, SpecConc, runs the body of  *)
(* store as the sequence of its remote calls, for two callers.             *)
(***************************************************************************)
EXTENDS Integers, Sequences, FiniteSets, TLC

\* ------------------------------------------------------------------ bounds
\* longest query component of the container URLs that are tried
MaxQuery == 2
\* longest run of repeated store calls that is counted
MaxRun == 3

\* ------------------------------------------------------------------ values
Files == {"A", "B"}
Keys == {<<"r">>}
Prefixes == {<<>>, <<"r">>, <<"z">>}
Bytes == {"", "x"}
Callers == {"c1", "c2"}

\* hashlib.md5(data).digest()
MD5 == [b \in Bytes |-> IF b = "" THEN "d41d8cd9" ELSE "9dd4e461"]

\* content_md5 of a blob that was uploaded without one
NoMD5 == "None"
Hashes == {MD5[b] : b \in Bytes} \cup {NoMD5}

NoFile == [exists |-> FALSE, data |-> ""]
NoBlob == [exists |-> FALSE, data |-> "", md5 |-> NoMD5]
LocalFiles == {NoFile} \cup {[exists |-> TRUE, data |-> b] : b \in Bytes}
Blobs == {NoBlob} \cup {[exists |-> TRUE, data |-> b, md5 |-> h] : b \in Bytes, h \in Hashes}

\* what a call returns or raises
ReturnTrue == "return True"
ReturnNone == "return None"
ReturnList == "return list"
ConflictError == "Exception: doesn't match. Use 'forced=True' to overwrite."
SecurityPolicyError == "Exception: Use of SAS keys not permitted!"
FormatError == "TypeError: 'NoneType' object is not subscriptable"
FileNotFoundError == "FileNotFoundError"
ResourceNotFoundError == "ResourceNotFoundError"

\* ------------------------------------------------------------ container URLs
https == <<"h", "t", "t", "p", "s", ":", "/", "/">>
http == <<"h", "t", "t", "p", ":", "/", "/">>

Str(A, n) == UNION {[1..i -> A] : i \in 0..n}

Tails == {<< >>} \cup {<<"?">> \o q : q \in Str({"t", "\n"}, MaxQuery)}

Urls ==
    {https \o <<"a", "/", "c">> \o t : t \in Tails}
    \cup {b \o t : b \in {http \o <<"a", "/", "c">>,
                          https \o <<"/", "c">>,
                          https \o <<"a", "/">>,
                          https \o <<"a">>},
                   t \in {<< >>, <<"?", "t">>}}

VARIABLES local, remote, last, calls, trip, run, st

vars == <<local, remote, last, calls, trip, run, st>>

\* ------------------------------------------------------------------- state
\* local : the local filesystem, remote : the blobs of the container
\* https://a/c (the only container the URLs above resolve to), last : the
\* latest call with what it returned or raised, calls : parity of the number
\* of calls made, trip : progress of a store / retrieve / retrieve round
\* trip, run : the repeated store calls that followed a first upload,
\* st : the position and local variables of each caller of SpecConc.
NoCall == [op |-> "none", local_fn |-> "A", blob_fn |-> << >>, container_url |-> << >>,
           forced |-> FALSE, result |-> ReturnNone, listing |-> {}]
NoTrip == [stage |-> 0, a |-> "A", b |-> "A", blob_fn |-> << >>, container_url |-> << >>]
NoRun == [len |-> 0, uploads |-> 0, local_fn |-> "A", blob_fn |-> << >>, container_url |-> << >>]
Idle == [pc |-> "idle", local_fn |-> "A", blob_fn |-> << >>, forced |-> FALSE,
         l_md5 |-> NoMD5, result |-> ReturnNone]

\* ------------------------------------------------------------ the utilities
\* number of leading characters of s that are not in stop
Run(s, stop) ==
    CHOOSE n \in 0..Len(s) :
        /\ \A i \in 1..n : s[i] \notin stop
        /\ n = Len(s) \/ s[n + 1] \in stop

NoMatch == [matched |-> FALSE, g1 |-> << >>, g2 |-> << >>, g3 |-> << >>]

\* re.match("(https://[^/]+)/([^\?]+)\??(.*)", url), the container path
\* being at least min_path characters long; "." does not match a newline
re_groups(url, min_path) ==
    LET afterScheme == SubSeq(url, Len(https) + 1, Len(url))
        h == Run(afterScheme, {"/"})
        afterHost == SubSeq(afterScheme, h + 2, Len(afterScheme))
        p == Run(afterHost, {"?"})
        afterPath == SubSeq(afterHost, p + 1, Len(afterHost))
        afterMark == IF afterPath # << >> /\ Head(afterPath) = "?"
                     THEN Tail(afterPath) ELSE afterPath
        q == Run(afterMark, {"\n"})
    IN  IF /\ Len(url) >= Len(https)
           /\ SubSeq(url, 1, Len(https)) = https
           /\ h >= 1
           /\ h < Len(afterScheme)
           /\ p >= min_path
        THEN [matched |-> TRUE,
              g1 |-> https \o SubSeq(afterScheme, 1, h),
              g2 |-> SubSeq(afterHost, 1, p),
              g3 |-> SubSeq(afterMark, 1, q)]
        ELSE NoMatch

\* the same pattern with [^\?]* for the container path
re_match_star(url) == re_groups(url, 0)

re_match(url) == re_groups(url, 1)

\* m[3] of a match that is None raises TypeError
get_container_client(container_url) ==
    LET m == re_match(container_url)
    IN  IF ~m.matched
        THEN [exc |-> FormatError, account_url |-> << >>, container |-> << >>]
        ELSE IF m.g3 # << >>
        THEN [exc |-> SecurityPolicyError, account_url |-> << >>, container |-> << >>]
        ELSE [exc |-> "", account_url |-> m.g1, container |-> m.g2]

get_blob_client(blob_fn, container_url) == get_container_client(container_url)

\* the md5 of local_props (size and mtime only appear in the message)
local_props(fs, fn) == MD5[fs[fn].data]

\* a property fetch that reads no content_md5
blob_props_none(blobs, blob_fn) == NoMD5

\* props["content_settings"]["content_md5"]
blob_props(blobs, blob_fn) == blobs[blob_fn].md5

\* Path.open: "wb" creates or truncates the file, "rb" leaves it alone
open(fs, fn, mode) ==
    IF mode = "wb" THEN [fs EXCEPT ![fn] = [exists |-> TRUE, data |-> ""]] ELSE fs

\* an upload that passes no content_md5
upload_blob_untagged(data, l_md5) == [exists |-> TRUE, data |-> data, md5 |-> NoMD5]

\* blob.upload_blob(stream, overwrite = True, content_settings = ...)
upload_blob(data, l_md5) == [exists |-> TRUE, data |-> data, md5 |-> l_md5]

\* a download that delivers no bytes
download_blob_empty(blob) == ""

\* blob.download_blob(), read in full by readinto
download_blob(blob) == blob.data

\* a comparison that accepts every pair
hashes_match_always(b_md5, l_md5) == TRUE

\* b_md5 == l_md5
hashes_match(b_md5, l_md5) == b_md5 = l_md5

\* forced is not looked at
store_checks_unforced(blob_exists, forced) == blob_exists

\* blob.exists() and not forced
store_checks(blob_exists, forced) == blob_exists /\ ~forced

\* the "not" is dropped
retrieve_checks_forced(local_exists, forced) == local_exists /\ forced

\* local.exists() and not forced
retrieve_checks(local_exists, forced) == local_exists /\ ~forced

store_open_mode_wb == "wb"

\* local.open("rb")
store_open_mode == "rb"

Outcome(result, fs, blobs) ==
    [result |-> result, local |-> fs, remote |-> blobs, listing |-> {}]

\* --------------------------------------------------------- the three calls
store(local_fn, blob_fn, container_url, forced) ==
    LET blob == get_blob_client(blob_fn, container_url)
    IN  IF blob.exc # "" THEN Outcome(blob.exc, local, remote)
        ELSE IF ~local[local_fn].exists THEN Outcome(FileNotFoundError, local, remote)
        ELSE LET l_md5 == local_props(local, local_fn)
             IN  IF store_checks(remote[blob_fn].exists, forced)
                 THEN IF hashes_match(blob_props(remote, blob_fn), l_md5)
                      THEN Outcome(ReturnNone, local, remote)
                      ELSE Outcome(ConflictError, local, remote)
                 ELSE LET opened == open(local, local_fn, store_open_mode)
                      IN  Outcome(ReturnTrue, opened,
                                  [remote EXCEPT ![blob_fn] =
                                       upload_blob(opened[local_fn].data, l_md5)])

retrieve(local_fn, blob_fn, container_url, forced) ==
    LET blob == get_blob_client(blob_fn, container_url)
    IN  IF blob.exc # "" THEN Outcome(blob.exc, local, remote)
        ELSE IF retrieve_checks(local[local_fn].exists, forced)
        THEN LET l_md5 == local_props(local, local_fn)
             IN  IF ~remote[blob_fn].exists
                 THEN Outcome(ResourceNotFoundError, local, remote)
                 ELSE IF hashes_match(blob_props(remote, blob_fn), l_md5)
                 THEN Outcome(ReturnNone, local, remote)
                 ELSE Outcome(ConflictError, local, remote)
        ELSE IF ~remote[blob_fn].exists
        THEN Outcome(ResourceNotFoundError, local, remote)
        ELSE LET opened == open(local, local_fn, "wb")
             IN  Outcome(ReturnTrue,
                         [opened EXCEPT ![local_fn].data = download_blob(remote[blob_fn])],
                         remote)

starts_with(key, prefix) ==
    Len(prefix) <= Len(key) /\ SubSeq(key, 1, Len(prefix)) = prefix

list_stored(blobs_starts_with, container_url) ==
    LET container == get_container_client(container_url)
    IN  IF container.exc # "" THEN Outcome(container.exc, local, remote)
        ELSE [result |-> ReturnList, local |-> local, remote |-> remote,
              listing |-> {k \in Keys : remote[k].exists /\ starts_with(k, blobs_starts_with)}]

\* ------------------------------------------------------------- round trips
\* stage 1: store has just uploaded file a; stage 2: a retrieve of the same
\* blob into b, absent or forced, came next; stage 3: an unforced retrieve
\* into b came after that.  Any other call starts over.
NextTrip(op, local_fn, blob_fn, container_url, forced, result) ==
    IF op = "store" /\ result = ReturnTrue
    THEN [stage |-> 1, a |-> local_fn, b |-> local_fn, blob_fn |-> blob_fn,
          container_url |-> container_url]
    ELSE IF /\ op = "retrieve"
            /\ trip.stage = 1
            /\ blob_fn = trip.blob_fn
            /\ container_url = trip.container_url
            /\ (forced \/ ~local[local_fn].exists)
    THEN [trip EXCEPT !.stage = 2, !.b = local_fn]
    ELSE IF /\ op = "retrieve"
            /\ trip.stage = 2
            /\ blob_fn = trip.blob_fn
            /\ container_url = trip.container_url
            /\ local_fn = trip.b
            /\ ~forced
    THEN [trip EXCEPT !.stage = 3]
    ELSE NoTrip

\* len 1: store has just uploaded to a blob that did not exist; len n + 1:
\* n unforced store calls of the same file, blob and container followed.
\* uploads counts the uploads of the run.  Any other call starts over.
NextRun(op, local_fn, blob_fn, container_url, forced, result) ==
    LET up == IF result = ReturnTrue THEN 1 ELSE 0
    IN  IF /\ op = "store"
           /\ run.len >= 1
           /\ local_fn = run.local_fn
           /\ blob_fn = run.blob_fn
           /\ container_url = run.container_url
           /\ ~forced
        THEN [run EXCEPT !.len = IF run.len < MaxRun THEN run.len + 1 ELSE MaxRun,
                         !.uploads = IF run.uploads + up < 2 THEN run.uploads + up ELSE 2]
        ELSE IF op = "store" /\ result = ReturnTrue /\ ~remote[blob_fn].exists
        THEN [len |-> 1, uploads |-> 1, local_fn |-> local_fn, blob_fn |-> blob_fn,
              container_url |-> container_url]
        ELSE NoRun

Call(op, local_fn, blob_fn, container_url, forced, out) ==
    /\ local' = out.local
    /\ remote' = out.remote
    /\ last' = [op |-> op, local_fn |-> local_fn, blob_fn |-> blob_fn,
                container_url |-> container_url, forced |-> forced,
                result |-> out.result, listing |-> out.listing]
    /\ calls' = 1 - calls
    /\ trip' = NextTrip(op, local_fn, blob_fn, container_url, forced, out.result)
    /\ run' = NextRun(op, local_fn, blob_fn, container_url, forced, out.result)
    /\ UNCHANGED st

\* ----------------------------------------------------------------- actions
Init ==
    /\ local \in [Files -> LocalFiles]
    /\ remote \in [Keys -> Blobs]
    /\ last = NoCall
    /\ calls = 0
    /\ trip = NoTrip
    /\ run = NoRun
    /\ st = [c \in Callers |-> Idle]

Store ==
    \E local_fn \in Files, blob_fn \in Keys, container_url \in Urls, forced \in BOOLEAN :
        Call("store", local_fn, blob_fn, container_url, forced,
             store(local_fn, blob_fn, container_url, forced))

Retrieve ==
    \E local_fn \in Files, blob_fn \in Keys, container_url \in Urls, forced \in BOOLEAN :
        Call("retrieve", local_fn, blob_fn, container_url, forced,
             retrieve(local_fn, blob_fn, container_url, forced))

ListStored ==
    \E blobs_starts_with \in Prefixes, container_url \in Urls :
        Call("list_stored", "A", blobs_starts_with, container_url, FALSE,
             list_stored(blobs_starts_with, container_url))

Next == Store \/ Retrieve \/ ListStored

Spec == Init /\ [][Next]_vars

\* ------------------------------------------- store, one remote call a step
\* lines 17-19: the blob client and the local hash
StoreBegin(c) ==
    /\ st[c].pc = "idle"
    /\ \E local_fn \in Files, blob_fn \in Keys, container_url \in Urls, forced \in BOOLEAN :
          LET blob == get_blob_client(blob_fn, container_url)
              args == [Idle EXCEPT !.local_fn = local_fn, !.blob_fn = blob_fn,
                                   !.forced = forced]
          IN  st' = [st EXCEPT ![c] =
                  IF blob.exc # "" THEN [args EXCEPT !.result = blob.exc]
                  ELSE IF ~local[local_fn].exists
                  THEN [args EXCEPT !.result = FileNotFoundError]
                  ELSE [args EXCEPT !.pc = "exists",
                                    !.l_md5 = local_props(local, local_fn)]]
    /\ UNCHANGED <<local, remote, last, calls, trip, run>>

\* line 20: blob.exists() and not forced
StoreExists(c) ==
    /\ st[c].pc = "exists"
    /\ st' = [st EXCEPT ![c].pc =
                 IF store_checks(remote[st[c].blob_fn].exists, st[c].forced)
                 THEN "props" ELSE "upload"]
    /\ UNCHANGED <<local, remote, last, calls, trip, run>>

\* lines 22-30: the property fetch and the comparison
StoreCompare(c) ==
    /\ st[c].pc = "props"
    /\ st' = [st EXCEPT ![c].pc = "idle", ![c].result =
                 IF ~remote[st[c].blob_fn].exists THEN ResourceNotFoundError
                 ELSE IF hashes_match(blob_props(remote, st[c].blob_fn), st[c].l_md5)
                 THEN ReturnNone
                 ELSE ConflictError]
    /\ UNCHANGED <<local, remote, last, calls, trip, run>>

\* lines 32-40: the upload, overwrite = True
StoreUpload(c) ==
    /\ st[c].pc = "upload"
    /\ remote' = [remote EXCEPT ![st[c].blob_fn] =
                     upload_blob(open(local, st[c].local_fn, store_open_mode)[st[c].local_fn].data,
                                 st[c].l_md5)]
    /\ local' = open(local, st[c].local_fn, store_open_mode)
    /\ st' = [st EXCEPT ![c].pc = "idle", ![c].result = ReturnTrue]
    /\ UNCHANGED <<last, calls, trip, run>>

NextConc ==
    \E c \in Callers : StoreBegin(c) \/ StoreExists(c) \/ StoreCompare(c) \/ StoreUpload(c)

SpecConc == Init /\ [][NextConc]_vars

\* ------------------------------------------ the shape of a container location
\* https://<host>/<containerPath>[?<query>]: the "/" that ends the host
HostEnd(u) ==
    IF \E i \in (Len(https) + 1)..Len(u) : u[i] = "/"
    THEN CHOOSE i \in (Len(https) + 1)..Len(u) :
            u[i] = "/" /\ \A j \in (Len(https) + 1)..(i - 1) : u[j] # "/"
    ELSE 0

\* the "?" that ends the container path, or one past the end
PathEnd(u) ==
    IF \E i \in (HostEnd(u) + 1)..Len(u) : u[i] = "?"
    THEN CHOOSE i \in (HostEnd(u) + 1)..Len(u) :
            u[i] = "?" /\ \A j \in (HostEnd(u) + 1)..(i - 1) : u[j] # "?"
    ELSE Len(u) + 1

WellFormed(u) ==
    /\ Len(u) >= Len(https)
    /\ SubSeq(u, 1, Len(https)) = https
    /\ HostEnd(u) > Len(https) + 1
    /\ PathEnd(u) > HostEnd(u) + 1

QueryOf(u) == SubSeq(u, PathEnd(u) + 1, Len(u))

\* the locations tried, by shape
PlainUrls == {u \in Urls : WellFormed(u) /\ QueryOf(u) = << >>}
QueryUrls == {u \in Urls : WellFormed(u) /\ QueryOf(u) # << >>}
MalformedUrls == {u \in Urls : ~WellFormed(u)}

\* a well-formed location without a query
Plain(u) == u \in PlainUrls

\* -------------------------------------------------------------- properties
\* the local hash of the call that `last'` records, in the state before it
LocalHash(c) == MD5[local[c.local_fn].data]

\* C1: a store call with forced = False on a plain location, an existing
\* local file and an existing blob whose stored hash differs from the local
\* file's hash raises the conflict exception and leaves the blob as it was.
C1_ConflictNoUpload ==
    [][LET c == last'
       IN  (/\ c.op = "store" /\ ~c.forced /\ Plain(c.container_url)
            /\ local[c.local_fn].exists
            /\ remote[c.blob_fn].exists
            /\ remote[c.blob_fn].md5 # LocalHash(c))
           => (c.result = ConflictError /\ remote' = remote)]_vars

C1_Witness ==
    /\ last.op = "store" /\ ~last.forced /\ last.result = ConflictError
    /\ remote[last.blob_fn].exists
    /\ remote[last.blob_fn].md5 # MD5[local[last.local_fn].data]

\* C2: a store call with forced = False on a plain location, an existing
\* local file and an existing blob whose stored hash equals the local file's
\* hash uploads nothing, raises nothing and returns None, not True.
C2_MatchSkips ==
    [][LET c == last'
       IN  (/\ c.op = "store" /\ ~c.forced /\ Plain(c.container_url)
            /\ local[c.local_fn].exists
            /\ remote[c.blob_fn].exists
            /\ remote[c.blob_fn].md5 = LocalHash(c))
           => (c.result = ReturnNone /\ c.result # ReturnTrue /\ remote' = remote)]_vars

C2_Witness ==
    /\ last.op = "store" /\ ~last.forced /\ last.result = ReturnNone
    /\ remote[last.blob_fn].exists
    /\ remote[last.blob_fn].md5 = MD5[local[last.local_fn].data]

\* C3: a store call on a plain location and an existing local file, with the
\* blob absent or with forced = True, uploads whatever the stored hash was:
\* afterwards the blob exists with the local file's bytes and the local hash,
\* and the call returns True.
C3_UploadWhenAbsentOrForced ==
    [][LET c == last'
       IN  (/\ c.op = "store" /\ Plain(c.container_url)
            /\ local[c.local_fn].exists
            /\ (c.forced \/ ~remote[c.blob_fn].exists))
           => (/\ c.result = ReturnTrue
               /\ remote'[c.blob_fn] = [exists |-> TRUE,
                                        data |-> local[c.local_fn].data,
                                        md5 |-> LocalHash(c)])]_vars

\* a forced store call has uploaded a file that has bytes
C3_Witness ==
    /\ last.op = "store" /\ last.forced /\ last.result = ReturnTrue
    /\ remote[last.blob_fn].data = "x"
    /\ remote[last.blob_fn].md5 = MD5["x"]

\* C4 as stated: a retrieve call with forced = False on an existing local
\* file never writes it, and either raises the conflict exception (exactly
\* when the hashes differ) or returns None.
C4_Original ==
    [][LET c == last'
       IN  (/\ c.op = "retrieve" /\ ~c.forced /\ Plain(c.container_url)
            /\ local[c.local_fn].exists)
           => (/\ local' = local
               /\ c.result \in {ConflictError, ReturnNone}
               /\ remote[c.blob_fn].exists =>
                      (c.result = ConflictError <=> remote[c.blob_fn].md5 # LocalHash(c)))]_vars

\* C4 amended: a retrieve call with forced = False on an existing local file
\* never writes it; when the blob exists it raises the conflict exception
\* exactly when the hashes differ and returns None otherwise; when the blob
\* does not exist the service's not-found error comes out instead.
C4_RetrieveChecksExisting ==
    [][LET c == last'
       IN  (/\ c.op = "retrieve" /\ ~c.forced /\ Plain(c.container_url)
            /\ local[c.local_fn].exists)
           => (/\ local' = local
               /\ IF remote[c.blob_fn].exists
                  THEN /\ c.result \in {ConflictError, ReturnNone}
                       /\ c.result = ConflictError <=> remote[c.blob_fn].md5 # LocalHash(c)
                       /\ c.result # ReturnTrue
                  ELSE c.result = ResourceNotFoundError)]_vars

C4_Witness ==
    /\ last.op = "retrieve" /\ ~last.forced /\ last.result = ConflictError
    /\ local[last.local_fn].exists
    /\ remote[last.blob_fn].exists
    /\ remote[last.blob_fn].md5 # MD5[local[last.local_fn].data]

\* C5: every call (store, retrieve, list_stored) on a well-formed location
\* whose query is not empty raises the SAS exception and transfers and lists
\* nothing.
C5_QueryRejected ==
    [][LET c == last'
       IN  c.container_url \in QueryUrls
           => (/\ c.result = SecurityPolicyError
               /\ local' = local /\ remote' = remote /\ c.listing = {})]_vars

\* C6: every call on a location that is not of the shape
\* https://<host>/<containerPath>[?<query>] fails with the TypeError of the
\* unmatched pattern, which is neither the SAS nor the conflict exception,
\* and transfers nothing.
C6_MalformedFails ==
    [][LET c == last'
       IN  c.container_url \in MalformedUrls
           => (/\ c.result = FormatError
               /\ c.result \notin {SecurityPolicyError, ConflictError}
               /\ local' = local /\ remote' = remote /\ c.listing = {})]_vars

C6_Witness ==
    /\ last.op \in {"store", "retrieve", "list_stored"}
    /\ last.container_url \in MalformedUrls
    /\ last.result = FormatError

\* C7: in a run that begins with a store to a blob that did not exist and
\* goes on with unforced store calls of the same file, blob and location,
\* the first call returns True, every later call returns None, and the run
\* holds exactly one upload.
C7_StoreIdempotent ==
    run.len >= 1 =>
        /\ run.uploads = 1
        /\ last.op = "store"
        /\ last.result = IF run.len = 1 THEN ReturnTrue ELSE ReturnNone
        /\ remote[run.blob_fn] = [exists |-> TRUE,
                                  data |-> local[run.local_fn].data,
                                  md5 |-> MD5[local[run.local_fn].data]]

C7_Witness == run.len = MaxRun /\ run.uploads = 1 /\ last.result = ReturnNone

\* C8: a store call leaves every local file as it was, and a retrieve or
\* list_stored call leaves every blob as it was, whatever the call returns
\* or raises.
C8_Frame ==
    [][/\ last'.op = "store" => local' = local
       /\ last'.op \in {"retrieve", "list_stored"} => remote' = remote]_vars

\* a download that followed an upload
C8_Witness ==
    /\ trip.stage = 2 /\ trip.a # trip.b
    /\ last.op = "retrieve" /\ last.result = ReturnTrue

\* C9: an upload step of a store call with forced = False never replaces a
\* blob that exists at that moment with a stored hash other than the
\* caller's local hash.
C9_NoUnforcedReplace ==
    [][\A c \in Callers :
          (st[c].pc = "upload" /\ st'[c].pc = "idle" /\ ~st[c].forced)
          => ~(/\ remote[st[c].blob_fn].exists
               /\ remote[st[c].blob_fn].md5 # st[c].l_md5)]_vars

\* C10: after a store that uploaded file a, a retrieve of the same blob into
\* b (absent, or forced) returns True and leaves b with the bytes and the
\* hash of a; an unforced retrieve into b right after returns None.
C10_RoundTrip ==
    /\ trip.stage = 2 =>
          /\ last.result = ReturnTrue
          /\ local[trip.b].exists
          /\ local[trip.b].data = local[trip.a].data
          /\ local_props(local, trip.b) = local_props(local, trip.a)
    /\ trip.stage = 3 =>
          /\ last.result = ReturnNone
          /\ local[trip.b].data = local[trip.a].data
          /\ remote[trip.blob_fn].md5 = MD5[remote[trip.blob_fn].data]

C10_Witness == trip.stage = 3 /\ trip.a # trip.b /\ local[trip.b].data = "x"

====
